---- MODULE Spec2Model ----
(***************************************************************************)
(* The asynchronous separation / transcription pipeline of stemtranscriber *)
(* as a state machine: the API handlers of api/main.py that create and     *)
(* enqueue jobs, the RQ worker of worker/worker.py, and the two tasks of   *)
(* worker/tasks.py, over the Redis job hashes and the DATA_DIR tree.       *)
(***************************************************************************)
EXTENDS Integers, Sequences, FiniteSets, TLC

\* ------------------------------------------------------------ bounds
MaxJobs == 2        \* job ids handed out (uuid4 in the code, fresh each time)
MaxRuns == 3        \* runs of equal frequency in a pyin estimate
NumWorkers == 2     \* worker processes pulling from the "default" queue

Jobs == 1..MaxJobs
ProjectIds == {"p1"}
Exts == {".wav"}                 \* upload_audio stores original<ext>
StemNames == {"bass.wav", "drums.wav", "other.wav", "vocals.wav"}
Instruments == {"bass"}
ExcTexts == {"boom"}             \* str(e) of an exception raised by a library

\* File contents are sequences of chunks; an absent file is the empty one.
Absent == <<>>
\* A directory entry the search of the scratch tree lists and Path.exists() denies:
\* a link without a target, a file that went away in between.
Dangling == <<"@dangling">>
X == <<"x">>
Y == <<"y">>

\* A scratch directory that does not exist / exists and is empty.
NoDir == [exists |-> FALSE, dirs |-> <<>>]
EmptyDir == [exists |-> TRUE, dirs |-> <<>>]

VARIABLES
  projects,     \* project ids whose directories exist under DATA_DIR/projects
  uploads,      \* uploads[p]: the extensions e with uploads/original<e> present
  stems,        \* stems[p][n]: content of stems/<n>, Absent when missing
  trans_files,  \* trans_files[p][f]: the job whose run wrote transcriptions/<f>, 0 when missing
  scratch,      \* scratch[j]: DATA_DIR/tmp_demucs/<project>/<j>
  store,        \* store[j]: the Redis hash stemtranscriber:job:<j> (a field -> value map)
  queue,        \* the RQ queue "default": tasks enqueued and not yet picked up
  apc,          \* apc[j]: position of the API handler that created job j
  req,          \* req[j]: the arguments of that handler's q.enqueue call
  wpc,          \* wpc[j]: position of the worker executing job j
  task,         \* task[j]: the arguments the worker received
  last_scaled,  \* local of separate_with_demucs
  raw,          \* the line of proc.stdout the loop has read last
  demucs,       \* the subprocess of job j: status never | started | exited, and its output
  copy,         \* locals of the copy loop: stem_folder, remaining names, copied
  stems_done,   \* history: the project's stem set when job j wrote succeeded
  since,        \* history: who else wrote the project's stem set since job j began to copy
  exc,          \* the text of the exception in flight in job j ("" when none)
  f0,           \* pyin's per-frame frequency estimate (0 stands for NaN)
  midi_frame,   \* per-frame MIDI note, -1 when unvoiced
  notes         \* the notes list of transcribe_monophonic

vars == <<projects, uploads, stems, trans_files, scratch, store, queue, apc, req,
          wpc, task, last_scaled, raw, demucs, copy, stems_done, since, exc,
          f0, midi_frame, notes>>

fsvars == <<projects, uploads, stems, trans_files, scratch>>
apivars == <<apc, req>>
seplocals == <<last_scaled, raw, demucs, copy>>
histvars == <<stems_done, since>>
dspvars == <<f0, midi_frame, notes>>

\* ------------------------------------------------------------ helpers
Max(a, b) == IF a >= b THEN a ELSE b
Min(a, b) == IF a <= b THEN a ELSE b

\* str(n) and int(s) for a non-negative integer: Redis keeps the decimal text.
RECURSIVE Str(_)
Str(n) == IF n < 10 THEN <<n>> ELSE Str(n \div 10) \o <<n % 10>>

RECURSIVE ParseInt(_)
ParseInt(s) == IF Len(s) = 0 THEN 0
               ELSE 10 * ParseInt(SubSeq(s, 1, Len(s) - 1)) + s[Len(s)]

\* A message: the fixed text, a string argument and a number argument.
Msg(text) == <<text, "", 0>>
MsgS(text, s) == <<text, s, 0>>
MsgN(text, n) == <<text, "", n>>

\* redis hset(key, mapping=...): the given fields are written, the others kept.
hset(hash, mapping) ==
  [f \in DOMAIN hash \cup DOMAIN mapping |->
     IF f \in DOMAIN mapping THEN mapping[f] ELSE hash[f]]

NoHash == [f \in {} |-> ""]

set_progress(st, job_id, progress, message) ==
  [st EXCEPT ![job_id] =
     hset(@, [state |-> "running", progress |-> Str(progress), message |-> message])]

Terminal(st, job_id, state, progress, message) ==
  [st EXCEPT ![job_id] =
     hset(@, [state |-> state, progress |-> Str(progress), message |-> message])]

\* GET /jobs/{job_id}
get_job_status(job_id) ==
  IF DOMAIN store[job_id] = {}
  THEN [job_id |-> job_id, state |-> "not_found", progress |-> 0,
        message |-> Msg("Job not found")]
  ELSE [job_id |-> job_id,
        state |-> IF "state" \in DOMAIN store[job_id]
                  THEN store[job_id].state ELSE "unknown",
        progress |-> IF "progress" \in DOMAIN store[job_id]
                     THEN ParseInt(store[job_id].progress) ELSE 0,
        message |-> IF "message" \in DOMAIN store[job_id]
                    THEN store[job_id].message ELSE Msg("")]

NoTask == [func |-> "", project_id |-> "", job_id |-> 0, stem_name |-> "", instrument |-> ""]
\* One line of the subprocess output, by what the two patterns find in it:
\* lead is the number RE_TQDM_PCT captures at the line start (-1: no match),
\* frac tells whether RE_TQDM_FRAC finds "x/total" in the line.
Line(lead, frac, x, total) == [lead |-> lead, frac |-> frac, x |-> x, total |-> total]
NoLine == Line(-1, FALSE, 0, 0)
NoCopy == [folder |-> 0, todo |-> <<>>, copied |-> 0]
NoRun == [status |-> "never", out |-> <<>>]
NoStems == [n \in StemNames |-> Absent]
\* transcriptions/<stem-base>.mid and .musicxml
TransNames == StemNames \X {"mid", "musicxml"}

\* ------------------------------------------------------------ initial state
Init ==
  /\ projects = {}
  /\ uploads = [p \in ProjectIds |-> {}]
  /\ stems = [p \in ProjectIds |-> NoStems]
  /\ trans_files = [p \in ProjectIds |-> [f \in TransNames |-> 0]]
  /\ scratch = [j \in Jobs |-> NoDir]
  /\ store = [j \in Jobs |-> NoHash]
  /\ queue = <<>>
  /\ apc = [j \in Jobs |-> "none"]
  /\ req = [j \in Jobs |-> NoTask]
  /\ wpc = [j \in Jobs |-> "idle"]
  /\ task = [j \in Jobs |-> NoTask]
  /\ last_scaled = [j \in Jobs |-> -1]
  /\ raw = [j \in Jobs |-> NoLine]
  /\ demucs = [j \in Jobs |-> NoRun]
  /\ copy = [j \in Jobs |-> NoCopy]
  /\ stems_done = [j \in Jobs |-> NoStems]
  /\ since = [j \in Jobs |-> {}]
  /\ exc = [j \in Jobs |-> ""]
  /\ f0 = [j \in Jobs |-> <<>>]
  /\ midi_frame = [j \in Jobs |-> <<>>]
  /\ notes = [j \in Jobs |-> <<>>]

\* ------------------------------------------------------------ API (api/main.py)
\* uuid.uuid4(): an id never used before.
FreshJob(j) == apc[j] = "none" /\ \A i \in Jobs : i < j => apc[i] # "none"

create_project(p) ==
  /\ p \notin projects
  /\ projects' = projects \cup {p}
  /\ UNCHANGED <<uploads, stems, trans_files, scratch, store, queue, apivars, wpc,
                 task, seplocals, histvars, exc, dspvars>>

upload_audio(p, ext) ==
  /\ p \in projects
  /\ uploads' = [uploads EXCEPT ![p] = @ \cup {ext}]
  /\ UNCHANGED <<projects, stems, trans_files, scratch, store, queue, apivars, wpc,
                 task, seplocals, histvars, exc, dspvars>>

\* separate with the two calls swapped: the task is on the queue before the record
\* is written.
separate_create_unrecorded(j, p) ==
  /\ FreshJob(j)
  /\ p \in projects
  /\ uploads[p] # {}
  /\ queue' = Append(queue, [func |-> "separate_with_demucs", project_id |-> p,
                              job_id |-> j, stem_name |-> "", instrument |-> ""])
  /\ apc' = [apc EXCEPT ![j] = "stored"]
  /\ req' = [req EXCEPT ![j] =
       [func |-> "separate_with_demucs", project_id |-> p, job_id |-> j,
        stem_name |-> "", instrument |-> ""]]
  /\ UNCHANGED <<fsvars, store, wpc, task, seplocals, histvars, exc, dspvars>>

\* POST /projects/{p}/separate up to the hset of the job record.
separate_create(j, p) ==
  /\ FreshJob(j)
  /\ p \in projects
  /\ uploads[p] # {}
  /\ store' = [store EXCEPT ![j] =
       hset(@, [state |-> "queued", progress |-> Str(0),
                message |-> Msg("Separation queued"), project_id |-> p])]
  /\ apc' = [apc EXCEPT ![j] = "stored"]
  /\ req' = [req EXCEPT ![j] =
       [func |-> "separate_with_demucs", project_id |-> p, job_id |-> j,
        stem_name |-> "", instrument |-> ""]]
  /\ UNCHANGED <<fsvars, queue, wpc, task, seplocals, histvars, exc, dspvars>>

\* q.enqueue(...) and the return of the handler.
separate_enqueue(j) ==
  /\ apc[j] = "stored"
  /\ req[j].func = "separate_with_demucs"
  /\ queue' = Append(queue, req[j])
  /\ apc' = [apc EXCEPT ![j] = "returned"]
  /\ UNCHANGED <<fsvars, store, req, wpc, task, seplocals, histvars, exc, dspvars>>

\* POST /projects/{p}/transcribe up to the hset of the job record.
transcribe_create(j, p, stem_name, instrument) ==
  /\ FreshJob(j)
  /\ p \in projects
  /\ stems[p][stem_name] # Absent
  /\ store' = [store EXCEPT ![j] =
       hset(@, [state |-> "queued", progress |-> Str(0),
                message |-> MsgS("Transcription queued", stem_name), project_id |-> p])]
  /\ apc' = [apc EXCEPT ![j] = "stored"]
  /\ req' = [req EXCEPT ![j] =
       [func |-> "transcribe_monophonic", project_id |-> p, job_id |-> j,
        stem_name |-> stem_name, instrument |-> instrument]]
  /\ UNCHANGED <<fsvars, queue, wpc, task, seplocals, histvars, exc, dspvars>>

transcribe_enqueue(j) ==
  /\ apc[j] = "stored"
  /\ req[j].func = "transcribe_monophonic"
  /\ queue' = Append(queue, req[j])
  /\ apc' = [apc EXCEPT ![j] = "returned"]
  /\ UNCHANGED <<fsvars, store, req, wpc, task, seplocals, histvars, exc, dspvars>>

\* ------------------------------------------------------------ worker (worker/worker.py)
Active == {j \in Jobs : wpc[j] \notin {"idle", "returned", "raised"}}

\* Worker.work: an idle worker takes the task at the head of the queue.
work(j) ==
  /\ queue # <<>>
  /\ Head(queue).job_id = j
  /\ Cardinality(Active) < NumWorkers
  /\ queue' = Tail(queue)
  /\ task' = [task EXCEPT ![j] = Head(queue)]
  /\ wpc' = [wpc EXCEPT ![j] =
       IF Head(queue).func = "separate_with_demucs" THEN "s_prepare" ELSE "t_prepare"]
  /\ UNCHANGED <<fsvars, store, apivars, seplocals, histvars, exc, dspvars>>

\* ------------------------------------------------------------ environment
\* DATA_DIR is a volume shared with whatever else runs on the host: a file the API
\* saw may be gone when the worker looks for it (the tasks re-check for that). The
\* removals are taken at the latest moment they can be: when a task is about to look.
fs_remove_upload(p) ==
  /\ uploads[p] # {}
  /\ \E j \in Jobs : wpc[j] = "s_locate" /\ task[j].project_id = p
  /\ uploads' = [uploads EXCEPT ![p] = {}]
  /\ UNCHANGED <<projects, stems, trans_files, scratch, store, queue, apivars, wpc,
                 task, seplocals, stems_done, since, exc, dspvars>>

\* The separation jobs of project p, other than job j, that have entered their copy
\* loop and not failed since.
Copying(p, j) ==
  {i \in Jobs \ {j} : /\ task[i].func = "separate_with_demucs"
                      /\ task[i].project_id = p
                      /\ \/ wpc[i] = "s_collect"
                         \/ /\ "state" \in DOMAIN store[i]
                            /\ store[i].state = "succeeded"}

\* history: writer (a job id, 0 for the outside) has changed the stem set of p.
\* A set with the outside in it, or with more than one writer, is kept as {0}.
Wrote(writer, p) ==
  [i \in Jobs |->
     IF i \notin Copying(p, writer) THEN since[i]
     ELSE IF since[i] \subseteq {writer} /\ writer # 0 THEN {writer} ELSE {0}]

fs_remove_stems(p) ==
  /\ stems[p] # NoStems
  /\ \E j \in Jobs : wpc[j] = "t_check" /\ task[j].project_id = p
  /\ stems' = [stems EXCEPT ![p] = NoStems]
  /\ since' = Wrote(0, p)
  /\ UNCHANGED <<projects, uploads, trans_files, scratch, store, queue, apivars, wpc,
                 task, seplocals, stems_done, exc, dspvars>>

\* What the demucs run leaves under --out: directories, in the order rglob meets
\* them, each a map from the .wav names it lists to their contents.
All4(c) == [n \in StemNames |-> c]
Only(names, c) == [n \in names |-> c]
ToolOutputs ==
  { <<>>,
    <<All4(X)>>,
    <<Only({"bass.wav", "vocals.wav"}, Y)>>,
    <<Only({"drums.wav"}, X)>>,
    <<Only({"bass.wav"}, Dangling)>> }

\* What a run that exits with a non-zero code leaves.
FailOutputs == { <<>>, <<All4(X)>> }

Lines ==
  { Line(-1, FALSE, 0, 0),      \* no pattern matches
    Line(10, FALSE, 0, 0),      \* " 10%|..."
    Line(150, TRUE, 1, 4),      \* "150%|... 1/4": the leading percentage wins
    Line(-1, TRUE, 1, 10),      \* "1/10"
    Line(-1, TRUE, 1, 0) }      \* "1/0": total is not positive

None == -1

\* clamp that lets its argument through.
clamp_off(n, lo, hi) == n

\* clamp without its upper limit.
clamp_low(n, lo, hi) == Max(lo, n)

clamp(n, lo, hi) == Max(lo, Min(hi, n))

\* tasks.py 84-94: the percentage a line carries, None when it carries none.
\* int((x / total) * 100) truncates; x and total are non-negative.
extract_pct(line) ==
  IF line.lead >= 0 THEN line.lead
  ELSE IF line.frac /\ line.total > 0 THEN (line.x * 100) \div line.total
  ELSE None

\* The rescaling with the product rounded to the nearest integer.
scale_round(pct) == 5 + (pct * 80 + 50) \div 100

\* tasks.py 98: scaled = 5 + int((pct / 100) * 80), pct in 0..100.
scale(pct) == 5 + (pct * 80) \div 100

\* The first directory that holds bass.wav, whatever its score.
find_stem_folder_first(tmp_out) ==
  LET cands == {i \in 1..Len(tmp_out.dirs) : "bass.wav" \in DOMAIN tmp_out.dirs[i]}
  IN IF cands = {} THEN 0 ELSE CHOOSE i \in cands : \A k \in cands : i <= k

\* tasks.py 23-34. The sort is stable and descending by score, so the winner is the
\* first directory, in enumeration order, among those of the highest score.
Score(d) == Cardinality(StemNames \cap DOMAIN d)
find_stem_folder(tmp_out) ==
  LET cands == {i \in 1..Len(tmp_out.dirs) : "bass.wav" \in DOMAIN tmp_out.dirs[i]}
  IN IF cands = {} THEN 0
     ELSE CHOOSE i \in cands :
            /\ \A k \in cands : Score(tmp_out.dirs[k]) <= Score(tmp_out.dirs[i])
            /\ \A k \in cands : Score(tmp_out.dirs[k]) = Score(tmp_out.dirs[i]) => i <= k

\* Path.exists() of <folder>/<name>
exists(folder, name) == name \in DOMAIN folder /\ folder[name] # Dangling

\* A copy that opens the target for appending.
copyfile_append(content, old) == old \o content

\* shutil.copyfile(src, dst): dst is created or truncated and gets src's content.
copyfile(content, old) == content

expected == <<"bass.wav", "drums.wav", "other.wav", "vocals.wav">>

\* The names of the copy loop that are still to come and exist in the folder.
RECURSIVE SkipMissing(_, _)
SkipMissing(folder, todo) ==
  IF todo = <<>> \/ exists(folder, Head(todo)) THEN todo
  ELSE SkipMissing(folder, Tail(todo))

\* ------------------------------------------------------------ separate_with_demucs
\* separate_with_demucs without its first set_progress.
sep_prepare_silent(j) ==
  /\ wpc[j] = "s_prepare"
  /\ wpc' = [wpc EXCEPT ![j] = "s_locate"]
  /\ UNCHANGED <<fsvars, store, queue, apivars, task, seplocals, histvars, exc, dspvars>>

\* 49: set_progress(job_id, 1, "Preparing Demucs...")
sep_prepare(j) ==
  /\ wpc[j] = "s_prepare"
  /\ store' = set_progress(store, j, 1, Msg("Preparing Demucs..."))
  /\ wpc' = [wpc EXCEPT ![j] = "s_locate"]
  /\ UNCHANGED <<fsvars, queue, apivars, task, seplocals, histvars, exc, dspvars>>

\* 51-58: no original.* in the uploads directory.
sep_no_upload(j) ==
  /\ wpc[j] = "s_locate"
  /\ uploads[task[j].project_id] = {}
  /\ store' = Terminal(store, j, "failed", 0, Msg("No uploaded audio"))
  /\ wpc' = [wpc EXCEPT ![j] = "returned"]
  /\ UNCHANGED <<fsvars, queue, apivars, task, seplocals, histvars, exc, dspvars>>

\* The scratch directory made and the run announced before the upload is looked for.
sep_announce_unchecked(j) ==
  /\ wpc[j] = "s_locate"
  /\ scratch' = [scratch EXCEPT ![task[j].job_id] = EmptyDir]
  /\ store' = set_progress(store, j, 5, Msg("Running Demucs..."))
  /\ last_scaled' = [last_scaled EXCEPT ![j] = -1]
  /\ raw' = [raw EXCEPT ![j] = NoLine]
  /\ wpc' = [wpc EXCEPT ![j] = "s_popen"]
  /\ UNCHANGED <<projects, uploads, stems, trans_files, queue, apivars, task, demucs,
                 copy, histvars, exc, dspvars>>

\* The scratch directory keyed by the project alone: making it afresh removes what
\* the other jobs of the project keep there.
sep_announce_shared(j) ==
  /\ wpc[j] = "s_locate"
  /\ uploads[task[j].project_id] # {}
  /\ scratch' = [i \in Jobs |->
       IF i = task[j].job_id THEN EmptyDir
       ELSE IF task[i].project_id = task[j].project_id THEN NoDir
       ELSE scratch[i]]
  /\ store' = set_progress(store, j, 5, Msg("Running Demucs..."))
  /\ last_scaled' = [last_scaled EXCEPT ![j] = -1]
  /\ raw' = [raw EXCEPT ![j] = NoLine]
  /\ wpc' = [wpc EXCEPT ![j] = "s_popen"]
  /\ UNCHANGED <<projects, uploads, stems, trans_files, queue, apivars, task, demucs,
                 copy, histvars, exc, dspvars>>

\* 51-73: the upload is there; the scratch directory of this job is made afresh,
\* set_progress(job_id, 5, ...), last_scaled = -1.
sep_announce(j) ==
  /\ wpc[j] = "s_locate"
  /\ uploads[task[j].project_id] # {}
  /\ scratch' = [scratch EXCEPT ![task[j].job_id] = EmptyDir]
  /\ store' = set_progress(store, j, 5, Msg("Running Demucs..."))
  /\ last_scaled' = [last_scaled EXCEPT ![j] = -1]
  /\ raw' = [raw EXCEPT ![j] = NoLine]
  /\ wpc' = [wpc EXCEPT ![j] = "s_popen"]
  /\ UNCHANGED <<projects, uploads, stems, trans_files, queue, apivars, task, demucs,
                 copy, histvars, exc, dspvars>>

\* 77: subprocess.Popen succeeds.
sep_popen(j) ==
  /\ wpc[j] = "s_popen"
  /\ demucs' = [demucs EXCEPT ![j].status = "started"]
  /\ wpc' = [wpc EXCEPT ![j] = "s_stream"]
  /\ UNCHANGED <<fsvars, store, queue, apivars, task, last_scaled, raw, copy, histvars,
                 exc, dspvars>>

\* The loop writing every percentage it finds, equal to the last one or not.
sep_line_always(j, line) ==
  /\ wpc[j] = "s_stream"
  /\ raw' = [raw EXCEPT ![j] = line]
  /\ LET found == extract_pct(line)
         pct == clamp(found, 0, 100)
         scaled == scale(pct)
     IN IF found # None
        THEN /\ last_scaled' = [last_scaled EXCEPT ![j] = scaled]
             /\ store' = set_progress(store, j, scaled, MsgN("Separating... %", pct))
        ELSE UNCHANGED <<last_scaled, store>>
  /\ UNCHANGED <<fsvars, queue, apivars, wpc, task, demucs, copy, histvars, exc,
                 dspvars>>

\* 80-101: one iteration of the loop over proc.stdout.
sep_line(j, line) ==
  /\ wpc[j] = "s_stream"
  /\ raw' = [raw EXCEPT ![j] = line]
  /\ LET found == extract_pct(line)
         pct == clamp(found, 0, 100)
         scaled == scale(pct)
     IN IF found # None /\ scaled # last_scaled[j]
        THEN /\ last_scaled' = [last_scaled EXCEPT ![j] = scaled]
             /\ store' = set_progress(store, j, scaled, MsgN("Separating... %", pct))
        ELSE UNCHANGED <<last_scaled, store>>
  /\ UNCHANGED <<fsvars, queue, apivars, wpc, task, demucs, copy, histvars, exc,
                 dspvars>>

\* 75-107: Popen, or reading the stream, raises; the handler fails the job.
sep_exception(j, e) ==
  /\ wpc[j] \in {"s_popen", "s_stream"}
  /\ store' = Terminal(store, j, "failed", 0, MsgS("Demucs exception: ", e))
  /\ last_scaled' = [last_scaled EXCEPT ![j] = -1]
  /\ raw' = [raw EXCEPT ![j] = NoLine]
  /\ wpc' = [wpc EXCEPT ![j] = "returned"]
  /\ UNCHANGED <<fsvars, queue, apivars, task, demucs, copy, histvars, exc, dspvars>>

\* 103-111: the stream ends, the process exits with a non-zero code.
sep_exit_fail(j, out) ==
  /\ wpc[j] = "s_stream"
  /\ demucs' = [demucs EXCEPT ![j] = [status |-> "exited", out |-> out]]
  /\ scratch' = [scratch EXCEPT ![task[j].job_id] = [exists |-> TRUE, dirs |-> out]]
  /\ store' = Terminal(store, j, "failed", 0, Msg("Demucs failed. Check worker logs."))
  /\ last_scaled' = [last_scaled EXCEPT ![j] = -1]
  /\ raw' = [raw EXCEPT ![j] = NoLine]
  /\ wpc' = [wpc EXCEPT ![j] = "returned"]
  /\ UNCHANGED <<projects, uploads, stems, trans_files, queue, apivars, task, copy,
                 histvars, exc, dspvars>>

\* 103-115: the process exits with code 0; set_progress(job_id, 90, ...) and the
\* search of the scratch tree.
sep_exit_ok(j, out) ==
  /\ wpc[j] = "s_stream"
  /\ demucs' = [demucs EXCEPT ![j] = [status |-> "exited", out |-> out]]
  /\ scratch' = [scratch EXCEPT ![task[j].job_id] = [exists |-> TRUE, dirs |-> out]]
  /\ store' = set_progress(store, j, 90, Msg("Collecting stems..."))
  /\ copy' = [copy EXCEPT ![j] =
       [folder |-> find_stem_folder([exists |-> TRUE, dirs |-> out]),
        todo |-> expected, copied |-> 0]]
  /\ last_scaled' = [last_scaled EXCEPT ![j] = -1]
  /\ raw' = [raw EXCEPT ![j] = NoLine]
  /\ wpc' = [wpc EXCEPT ![j] = "s_collect"]
  /\ UNCHANGED <<projects, uploads, stems, trans_files, queue, apivars, task,
                 histvars, exc, dspvars>>

\* 116-123: no directory of the scratch tree holds bass.wav.
sep_no_output(j) ==
  /\ wpc[j] = "s_collect"
  /\ copy[j].folder = 0
  /\ store' = Terminal(store, j, "failed", 0, Msg("No demucs output found"))
  /\ copy' = [copy EXCEPT ![j] = NoCopy]
  /\ since' = [since EXCEPT ![j] = {}]
  /\ wpc' = [wpc EXCEPT ![j] = "returned"]
  /\ UNCHANGED <<fsvars, queue, apivars, task, last_scaled, raw, demucs, stems_done, exc,
                 dspvars>>

\* 127-131: the copy loop up to and including its next copyfile.
sep_copy(j) ==
  /\ wpc[j] = "s_collect"
  /\ copy[j].folder # 0
  /\ LET folder == scratch[task[j].job_id].dirs[copy[j].folder]
         todo == SkipMissing(folder, copy[j].todo)
         p == task[j].project_id
     IN /\ todo # <<>>
        /\ stems' = [stems EXCEPT ![p][Head(todo)] = copyfile(folder[Head(todo)], @)]
        /\ copy' = [copy EXCEPT ![j].todo = Tail(todo), ![j].copied = @ + 1]
        /\ since' = Wrote(j, p)
  /\ UNCHANGED <<projects, uploads, trans_files, scratch, store, queue, apivars, wpc,
                 task, last_scaled, raw, demucs, stems_done, exc, dspvars>>

\* 130: shutil.copyfile raises (the disk is full, the target cannot be written);
\* nothing in separate_with_demucs catches it.
sep_copy_raises(j, e) ==
  /\ wpc[j] = "s_collect"
  /\ copy[j].folder # 0
  /\ SkipMissing(scratch[task[j].job_id].dirs[copy[j].folder], copy[j].todo) # <<>>
  /\ exc' = [exc EXCEPT ![j] = e]
  /\ copy' = [copy EXCEPT ![j] = NoCopy]
  /\ since' = [since EXCEPT ![j] = {}]
  /\ wpc' = [wpc EXCEPT ![j] = "raised"]
  /\ UNCHANGED <<fsvars, store, queue, apivars, task, last_scaled, raw, demucs, stems_done,
                 dspvars>>

\* The failure taken at the end of the loop whatever was copied.
sep_none_copied_any(j) ==
  /\ wpc[j] = "s_collect"
  /\ copy[j].folder # 0
  /\ SkipMissing(scratch[task[j].job_id].dirs[copy[j].folder], copy[j].todo) = <<>>
  /\ store' = Terminal(store, j, "failed", 0, Msg("No stems copied"))
  /\ copy' = [copy EXCEPT ![j] = NoCopy]
  /\ since' = [since EXCEPT ![j] = {}]
  /\ wpc' = [wpc EXCEPT ![j] = "returned"]
  /\ UNCHANGED <<fsvars, queue, apivars, task, last_scaled, raw, demucs, stems_done, exc,
                 dspvars>>

\* 127-135: the loop ends with nothing copied.
sep_none_copied(j) ==
  /\ wpc[j] = "s_collect"
  /\ copy[j].folder # 0
  /\ SkipMissing(scratch[task[j].job_id].dirs[copy[j].folder], copy[j].todo) = <<>>
  /\ copy[j].copied = 0
  /\ store' = Terminal(store, j, "failed", 0, Msg("No stems copied"))
  /\ copy' = [copy EXCEPT ![j] = NoCopy]
  /\ since' = [since EXCEPT ![j] = {}]
  /\ wpc' = [wpc EXCEPT ![j] = "returned"]
  /\ UNCHANGED <<fsvars, queue, apivars, task, last_scaled, raw, demucs, stems_done, exc,
                 dspvars>>

\* 127-138: the loop ends, the scratch directory is removed and the job succeeds.
sep_succeed(j) ==
  /\ wpc[j] = "s_collect"
  /\ copy[j].folder # 0
  /\ SkipMissing(scratch[task[j].job_id].dirs[copy[j].folder], copy[j].todo) = <<>>
  /\ copy[j].copied # 0
  /\ scratch' = [scratch EXCEPT ![task[j].job_id] = NoDir]
  /\ store' = Terminal(store, j, "succeeded", 100, Msg("Stems ready (Demucs)."))
  /\ copy' = [copy EXCEPT ![j] = NoCopy]
  /\ stems_done' = [stems_done EXCEPT ![j] = stems[task[j].project_id]]
  /\ wpc' = [wpc EXCEPT ![j] = "returned"]
  /\ UNCHANGED <<projects, uploads, stems, trans_files, queue, apivars, task,
                 last_scaled, raw, demucs, since, exc, dspvars>>

separate_with_demucs(j) ==
  \/ sep_prepare(j)
  \/ sep_no_upload(j)
  \/ sep_announce(j)
  \/ sep_popen(j)
  \/ \E line \in Lines : sep_line(j, line)
  \/ \E e \in ExcTexts : sep_exception(j, e)
  \/ \E out \in FailOutputs : sep_exit_fail(j, out)
  \/ \E out \in ToolOutputs : sep_exit_ok(j, out)
  \/ sep_no_output(j)
  \/ sep_copy(j)
  \/ \E e \in ExcTexts : sep_copy_raises(j, e)
  \/ sep_none_copied(j)
  \/ sep_succeed(j)

\* ------------------------------------------------------------ pitch to notes
SampleRate == 22050      \* librosa.load(..., sr=22050)
HopLength == 256         \* hop_length=256
MinNoteLenCs == 6        \* min_note_len_s = 0.06, in hundredths of a second
FallbackHopCs == 1       \* the hop taken for a single frame, 0.01 s

NaN == 0                 \* an unvoiced frame of f0
HzValues == {262, 294}
RunLens == {1, 2, 3, 6, 17}

\* hz_to_midi: int(round(69 + 12 * log2(hz / 440.0))). SemitoneFloor[m] is
\* 440 * 2^((m - 69.5) / 12) in millihertz, the frequency from which the rounding
\* gives m; no whole number of hertz sits on a boundary.
SemitoneFloor ==
  [m \in 59..64 |->
     CASE m = 59 -> 239912 [] m = 60 -> 254178 [] m = 61 -> 269292
       [] m = 62 -> 285305 [] m = 63 -> 302270 [] m = 64 -> 320244]

hz_to_midi(hz) ==
  CHOOSE m \in 59..63 : SemitoneFloor[m] <= hz * 1000 /\ hz * 1000 < SemitoneFloor[m + 1]

\* 197-200: midi_frame, -1 where f0 is NaN.
to_midi_frames(f) ==
  [i \in 1..Len(f) |-> IF f[i] = NaN THEN -1 ELSE hz_to_midi(f[i])]

\* The k-th smallest of a non-empty sequence of numbers.
Kth(vals, k) ==
  CHOOSE v \in {vals[i] : i \in 1..Len(vals)} :
    /\ Cardinality({i \in 1..Len(vals) : vals[i] < v}) < k
    /\ Cardinality({i \in 1..Len(vals) : vals[i] <= v}) >= k

\* int(np.median(vals)): the middle value, or the mean of the two middle values
\* truncated (the values are non-negative).
median(vals) ==
  IF Len(vals) % 2 = 1 THEN Kth(vals, (Len(vals) + 1) \div 2)
  ELSE (Kth(vals, Len(vals) \div 2) + Kth(vals, Len(vals) \div 2 + 1)) \div 2

\* The window with its sentinels left in.
Voiced_all(window) == window

\* 206: vals = window[window >= 0]
Voiced(window) == SelectSeq(window, LAMBDA v : v >= 0)

\* 204-209, in place: frame i (1-based here) is replaced after frames before it.
RECURSIVE smooth_from(_, _)
smooth_from(mf, i) ==
  IF i > Len(mf) - 2 THEN mf
  ELSE LET vals == Voiced(SubSeq(mf, i - 2, i + 2))
       IN smooth_from(IF Len(vals) >= 3 THEN [mf EXCEPT ![i] = median(vals)] ELSE mf,
                      i + 1)

smooth(mf) == smooth_from(mf, 3)

\* A time is <<k, u>>: the double nearest to k * 256 / 22050 seconds, moved by u
\* units in the last place. times[k] is <<k, 0>>.
\* float(times[j-1]) + (times[1] - times[0]) is rounded once more, and lands on
\* times[j], one unit above it or one unit below it. For j up to 100,
\* in IEEE double arithmetic:
EndAbove == {23, 27, 30, 34, 37, 41, 46, 53, 60, 67, 74, 81, 92}
EndBelow == {13, 16, 18, 20}
end_time(j) == <<j, IF j \in EndAbove THEN 1 ELSE IF j \in EndBelow THEN -1 ELSE 0>>
start_time(i) == <<i, 0>>

TimeLess(a, b) == a[1] < b[1] \/ (a[1] = b[1] /\ a[2] < b[2])
TimeLeq(a, b) == a = b \/ TimeLess(a, b)

\* 227: end_t - start_t >= min_note_len_s, for a run of frames i..j-1 (0-based) out
\* of n frames. The rounding of the three operations never changes the outcome:
\* five hops are 0.0580 s and six are 0.0697 s.
long_enough(i, j, n) ==
  IF n > 1 THEN (j - i) * HopLength * 100 >= MinNoteLenCs * SampleRate
  ELSE FallbackHopCs >= MinNoteLenCs

\* 223-225: the first position after the run that starts at position i.
RECURSIVE run_end(_, _, _)
run_end(mf, note, j) ==
  IF j <= Len(mf) /\ mf[j] = note THEN run_end(mf, note, j + 1) ELSE j

\* 214-229, positions 1-based here and frame indices 0-based in the times.
RECURSIVE segment_from(_, _)
segment_from(mf, i) ==
  IF i > Len(mf) THEN <<>>
  ELSE IF mf[i] < 0 THEN segment_from(mf, i + 1)
  ELSE LET j == run_end(mf, mf[i], i + 1)
       IN (IF long_enough(i - 1, j - 1, Len(mf))
           THEN << [pitch |-> mf[i], start |-> start_time(i - 1), end |-> end_time(j - 1)] >>
           ELSE <<>>)
          \o segment_from(mf, j)

segment(mf) == segment_from(mf, 1)

RunSeq(v, n) == [i \in 1..n |-> v]

\* The pyin estimates made of at most k runs of one value each.
RECURSIVE F0Upto(_)
F0Upto(k) ==
  IF k = 0 THEN {<<>>}
  ELSE F0Upto(k - 1) \cup
       {s \o RunSeq(v, n) : s \in F0Upto(k - 1), v \in HzValues \cup {NaN}, n \in RunLens}

F0All == F0Upto(MaxRuns)
F0Main == {RunSeq(262, 6), RunSeq(NaN, 3)}

\* ------------------------------------------------------------ transcribe_monophonic
\* 161: set_progress(job_id, 1, "Preparing transcription...")
t_prepare(j) ==
  /\ wpc[j] = "t_prepare"
  /\ store' = set_progress(store, j, 1, Msg("Preparing transcription..."))
  /\ wpc' = [wpc EXCEPT ![j] = "t_check"]
  /\ UNCHANGED <<fsvars, queue, apivars, task, seplocals, histvars, exc, dspvars>>

\* 163-166: the stem file is not there.
t_no_stem(j) ==
  /\ wpc[j] = "t_check"
  /\ stems[task[j].project_id][task[j].stem_name] = Absent
  /\ store' = Terminal(store, j, "failed", 0, MsgS("Stem not found: ", task[j].stem_name))
  /\ wpc' = [wpc EXCEPT ![j] = "returned"]
  /\ UNCHANGED <<fsvars, queue, apivars, task, seplocals, histvars, exc, dspvars>>

\* 163-171: the stem file is there; set_progress(job_id, 5, "Loading audio...")
t_loading(j) ==
  /\ wpc[j] = "t_check"
  /\ stems[task[j].project_id][task[j].stem_name] # Absent
  /\ store' = set_progress(store, j, 5, Msg("Loading audio..."))
  /\ wpc' = [wpc EXCEPT ![j] = "t_load"]
  /\ UNCHANGED <<fsvars, queue, apivars, task, seplocals, histvars, exc, dspvars>>

\* 173-182: the imports, librosa.load and trim; set_progress(job_id, 15, ...)
t_load(j) ==
  /\ wpc[j] = "t_load"
  /\ store' = set_progress(store, j, 15, Msg("Detecting pitch (pyin)..."))
  /\ wpc' = [wpc EXCEPT ![j] = "t_pyin"]
  /\ UNCHANGED <<fsvars, queue, apivars, task, seplocals, histvars, exc, dspvars>>

\* 185-211: librosa.pyin returns the estimate f; the notes per frame, smoothed;
\* set_progress(job_id, 35, "Building notes...")
t_frames(j, f) ==
  /\ wpc[j] = "t_pyin"
  /\ f0' = [f0 EXCEPT ![j] = f]
  /\ midi_frame' = [midi_frame EXCEPT ![j] = smooth(to_midi_frames(f))]
  /\ store' = set_progress(store, j, 35, Msg("Building notes..."))
  /\ wpc' = [wpc EXCEPT ![j] = "t_notes"]
  /\ UNCHANGED <<fsvars, queue, apivars, task, seplocals, histvars, exc, notes>>

\* The "no notes" branch without its return.
t_no_notes_no_return(j) ==
  /\ wpc[j] = "t_notes"
  /\ segment(midi_frame[j]) = <<>>
  /\ store' = Terminal(store, j, "failed", 0,
                       Msg("No notes detected (try bass stem, or cleaner audio)."))
  /\ wpc' = [wpc EXCEPT ![j] = "t_midi"]
  /\ UNCHANGED <<fsvars, queue, apivars, task, seplocals, histvars, exc, dspvars>>

\* 213-233: no note survives.
t_no_notes(j) ==
  /\ wpc[j] = "t_notes"
  /\ segment(midi_frame[j]) = <<>>
  /\ store' = Terminal(store, j, "failed", 0,
                       Msg("No notes detected (try bass stem, or cleaner audio)."))
  /\ f0' = [f0 EXCEPT ![j] = <<>>]
  /\ midi_frame' = [midi_frame EXCEPT ![j] = <<>>]
  /\ wpc' = [wpc EXCEPT ![j] = "returned"]
  /\ UNCHANGED <<fsvars, queue, apivars, task, seplocals, histvars, exc, notes>>

\* 213-235: the notes; set_progress(job_id, 55, "Writing MIDI...")
t_notes(j) ==
  /\ wpc[j] = "t_notes"
  /\ segment(midi_frame[j]) # <<>>
  /\ notes' = [notes EXCEPT ![j] = segment(midi_frame[j])]
  /\ store' = set_progress(store, j, 55, Msg("Writing MIDI..."))
  /\ wpc' = [wpc EXCEPT ![j] = "t_midi"]
  /\ UNCHANGED <<fsvars, queue, apivars, task, seplocals, histvars, exc, f0,
                 midi_frame>>

\* 237-248: the MIDI file is written; set_progress(job_id, 75, ...)
t_midi(j) ==
  /\ wpc[j] = "t_midi"
  /\ trans_files' = [trans_files EXCEPT
                       ![task[j].project_id][<<task[j].stem_name, "mid">>] = j]
  /\ store' = set_progress(store, j, 75, Msg("Converting to MusicXML..."))
  /\ wpc' = [wpc EXCEPT ![j] = "t_xml"]
  /\ UNCHANGED <<projects, uploads, stems, scratch, queue, apivars, task, seplocals,
                 histvars, exc, dspvars>>

\* 250-256: the MusicXML file is written and the job succeeds.
t_xml(j) ==
  /\ wpc[j] = "t_xml"
  /\ trans_files' = [trans_files EXCEPT
                       ![task[j].project_id][<<task[j].stem_name, "musicxml">>] = j]
  /\ store' = Terminal(store, j, "succeeded", 100,
                       Msg("Transcription ready (MIDI + MusicXML)."))
  /\ f0' = [f0 EXCEPT ![j] = <<>>]
  /\ midi_frame' = [midi_frame EXCEPT ![j] = <<>>]
  /\ notes' = [notes EXCEPT ![j] = <<>>]
  /\ wpc' = [wpc EXCEPT ![j] = "returned"]
  /\ UNCHANGED <<projects, uploads, stems, scratch, queue, apivars, task, seplocals,
                 histvars, exc>>

\* A handler that only raises again.
t_except_silent(j, e) ==
  /\ wpc[j] \in {"t_load", "t_pyin", "t_midi", "t_xml"}
  /\ exc' = [exc EXCEPT ![j] = e]
  /\ f0' = [f0 EXCEPT ![j] = <<>>]
  /\ midi_frame' = [midi_frame EXCEPT ![j] = <<>>]
  /\ notes' = [notes EXCEPT ![j] = <<>>]
  /\ wpc' = [wpc EXCEPT ![j] = "raised"]
  /\ UNCHANGED <<fsvars, store, queue, apivars, task, seplocals, histvars>>

\* 258-260: a library call inside the try block raises (loading, pyin, writing the
\* MIDI file, parsing it back, writing the MusicXML file); except Exception as e
\* fails the job and raises e again.
t_except(j, e) ==
  /\ wpc[j] \in {"t_load", "t_pyin", "t_midi", "t_xml"}
  /\ store' = Terminal(store, j, "failed", 0, MsgS("Transcription exception: ", e))
  /\ exc' = [exc EXCEPT ![j] = e]
  /\ f0' = [f0 EXCEPT ![j] = <<>>]
  /\ midi_frame' = [midi_frame EXCEPT ![j] = <<>>]
  /\ notes' = [notes EXCEPT ![j] = <<>>]
  /\ wpc' = [wpc EXCEPT ![j] = "raised"]
  /\ UNCHANGED <<fsvars, queue, apivars, task, seplocals, histvars>>

transcribe_monophonic(j) ==
  \/ t_prepare(j)
  \/ t_no_stem(j)
  \/ t_loading(j)
  \/ t_load(j)
  \/ \E f \in F0Main : t_frames(j, f)
  \/ t_no_notes(j)
  \/ t_notes(j)
  \/ t_midi(j)
  \/ t_xml(j)
  \/ \E e \in ExcTexts : t_except(j, e)

\* ------------------------------------------------------------ specifications
Next ==
  \/ \E p \in ProjectIds : create_project(p)
  \/ \E p \in ProjectIds, e \in Exts : upload_audio(p, e)
  \/ \E j \in Jobs, p \in ProjectIds : separate_create(j, p)
  \/ \E j \in Jobs : separate_enqueue(j)
  \/ \E j \in Jobs, p \in ProjectIds, n \in StemNames, i \in Instruments :
       transcribe_create(j, p, n, i)
  \/ \E j \in Jobs : transcribe_enqueue(j)
  \/ \E j \in Jobs : work(j)
  \/ \E j \in Jobs : separate_with_demucs(j)
  \/ \E j \in Jobs : transcribe_monophonic(j)
  \/ \E p \in ProjectIds : fs_remove_upload(p)
  \/ \E p \in ProjectIds : fs_remove_stems(p)

Spec == Init /\ [][Next]_vars

\* The transcriber from the call of pyin on, for every estimate in F0All.
InitDsp ==
  /\ projects = {"p1"}
  /\ uploads = [p \in ProjectIds |-> IF p = "p1" THEN {".wav"} ELSE {}]
  /\ stems = [p \in ProjectIds |-> IF p = "p1" THEN All4(X) ELSE NoStems]
  /\ trans_files = [p \in ProjectIds |-> [f \in TransNames |-> 0]]
  /\ scratch = [j \in Jobs |-> NoDir]
  /\ store = [j \in Jobs |->
       IF j = 1
       THEN [state |-> "running", progress |-> Str(15),
             message |-> Msg("Detecting pitch (pyin)..."), project_id |-> "p1"]
       ELSE NoHash]
  /\ queue = <<>>
  /\ apc = [j \in Jobs |-> IF j = 1 THEN "returned" ELSE "none"]
  /\ req = [j \in Jobs |->
       IF j = 1
       THEN [func |-> "transcribe_monophonic", project_id |-> "p1", job_id |-> 1,
             stem_name |-> "bass.wav", instrument |-> "bass"]
       ELSE NoTask]
  /\ wpc = [j \in Jobs |-> IF j = 1 THEN "t_pyin" ELSE "idle"]
  /\ task = req
  /\ last_scaled = [j \in Jobs |-> -1]
  /\ raw = [j \in Jobs |-> NoLine]
  /\ demucs = [j \in Jobs |-> NoRun]
  /\ copy = [j \in Jobs |-> NoCopy]
  /\ stems_done = [j \in Jobs |-> NoStems]
  /\ since = [j \in Jobs |-> {}]
  /\ exc = [j \in Jobs |-> ""]
  /\ f0 = [j \in Jobs |-> <<>>]
  /\ midi_frame = [j \in Jobs |-> <<>>]
  /\ notes = [j \in Jobs |-> <<>>]

NextDsp ==
  \E j \in Jobs :
    \/ \E f \in F0All : t_frames(j, f)
    \/ t_no_notes(j)
    \/ t_notes(j)
    \/ t_midi(j)
    \/ t_xml(j)
    \/ \E e \in ExcTexts : t_except(j, e)

SpecDsp == InitDsp /\ [][NextDsp]_vars

\* ------------------------------------------------------------ the progress translator
MaxFrac == 3        \* the numbers of an "x/total" match run over 0..MaxFrac

\* The lines the translator is given: every leading percentage 0..100, two above
\* 100 (the pattern takes up to three digits), every small "x/total" with and
\* without a leading percentage, and a line neither pattern matches.
LinesAll ==
  {Line(n, FALSE, 0, 0) : n \in 0..100}
    \cup {Line(150, FALSE, 0, 0), Line(999, FALSE, 0, 0), NoLine}
    \cup {Line(-1, TRUE, x, t) : x \in 0..MaxFrac, t \in 0..MaxFrac}
    \cup {Line(50, TRUE, x, 0) : x \in 0..MaxFrac}

\* separate_with_demucs from the moment Popen has returned, reading LinesAll.
InitStream ==
  /\ projects = {"p1"}
  /\ uploads = [p \in ProjectIds |-> IF p = "p1" THEN {".wav"} ELSE {}]
  /\ stems = [p \in ProjectIds |-> NoStems]
  /\ trans_files = [p \in ProjectIds |-> [f \in TransNames |-> 0]]
  /\ scratch = [j \in Jobs |-> IF j = 1 THEN EmptyDir ELSE NoDir]
  /\ store = [j \in Jobs |->
       IF j = 1
       THEN [state |-> "running", progress |-> Str(5),
             message |-> Msg("Running Demucs..."), project_id |-> "p1"]
       ELSE NoHash]
  /\ queue = <<>>
  /\ apc = [j \in Jobs |-> IF j = 1 THEN "returned" ELSE "none"]
  /\ req = [j \in Jobs |->
       IF j = 1
       THEN [func |-> "separate_with_demucs", project_id |-> "p1", job_id |-> 1,
             stem_name |-> "", instrument |-> ""]
       ELSE NoTask]
  /\ wpc = [j \in Jobs |-> IF j = 1 THEN "s_stream" ELSE "idle"]
  /\ task = req
  /\ last_scaled = [j \in Jobs |-> -1]
  /\ raw = [j \in Jobs |-> NoLine]
  /\ demucs = [j \in Jobs |-> IF j = 1 THEN [status |-> "started", out |-> <<>>] ELSE NoRun]
  /\ copy = [j \in Jobs |-> NoCopy]
  /\ stems_done = [j \in Jobs |-> NoStems]
  /\ since = [j \in Jobs |-> {}]
  /\ exc = [j \in Jobs |-> ""]
  /\ f0 = [j \in Jobs |-> <<>>]
  /\ midi_frame = [j \in Jobs |-> <<>>]
  /\ notes = [j \in Jobs |-> <<>>]

NextStream == \E j \in Jobs, line \in LinesAll : sep_line(j, line)

SpecStream == InitStream /\ [][NextStream]_vars

\* ------------------------------------------------------------ the search of the scratch tree
MaxDirs == 2        \* directories with .wav files under the scratch directory

\* What a directory may list: any of the four stems, or bass.wav beside three
\* files of other names.
DirsAll ==
  {Only(S, X) : S \in SUBSET StemNames}
    \cup {Only({"bass.wav", "a.wav", "b.wav", "c.wav"}, X)}

RECURSIVE TreesUpto(_)
TreesUpto(k) ==
  IF k = 0 THEN {<<>>}
  ELSE TreesUpto(k - 1) \cup {Append(t, d) : t \in TreesUpto(k - 1), d \in DirsAll}

TreesAll == TreesUpto(MaxDirs)

\* separate_with_demucs from the end of the stream on, for every tree in TreesAll.
NextFolder ==
  \E j \in Jobs :
    \/ \E out \in TreesAll : sep_exit_ok(j, out)
    \/ sep_no_output(j)
    \/ sep_copy(j)
    \/ sep_succeed(j)

SpecFolder == InitStream /\ [][NextFolder]_vars

\* The transcriber from the call of pyin on, for every estimate of at most
\* MaxFrames frames, each frame unvoiced or at one of the two frequencies.
MaxFrames == 7

RECURSIVE F0Frames(_)
F0Frames(n) ==
  IF n = 0 THEN {<<>>}
  ELSE F0Frames(n - 1) \cup
       {Append(s, v) : s \in {t \in F0Frames(n - 1) : Len(t) = n - 1},
                       v \in HzValues \cup {NaN}}

F0Short == F0Frames(MaxFrames)

NextSmooth ==
  \E j \in Jobs :
    \/ \E f \in F0Short : t_frames(j, f)
    \/ t_no_notes(j)
    \/ t_notes(j)
    \/ t_midi(j)
    \/ t_xml(j)
    \/ \E e \in ExcTexts : t_except(j, e)

SpecSmooth == InitDsp /\ [][NextSmooth]_vars

\* ------------------------------------------------------------ properties
\* What GET /jobs/{job_id} reports of job j, now and after the step.
StateOf(st, j) == IF "state" \in DOMAIN st[j] THEN st[j].state
                  ELSE IF DOMAIN st[j] = {} THEN "not_found" ELSE "unknown"
ProgressOf(st, j) == IF "progress" \in DOMAIN st[j] THEN ParseInt(st[j].progress) ELSE 0
IsTerminal(s) == s \in {"succeeded", "failed"}
IsSeparation(j) == task[j].func = "separate_with_demucs"
IsTranscription(j) == task[j].func = "transcribe_monophonic"

\* C1: once the record of a job says succeeded or failed, no step of the API or
\* of a worker changes any field of it (state, progress, message).
C1_TerminalImmutable ==
  [][\A j \in Jobs : IsTerminal(StateOf(store, j)) => store'[j] = store[j]]_vars

\* C1 witness: a job has succeeded and, after that, another job has copied a stem
\* and is still running: workers have acted after the terminal write.
C1_Witness ==
  \E j \in Jobs, i \in Jobs :
    /\ i # j
    /\ StateOf(store, j) = "succeeded"
    /\ i \in since[j]
    /\ StateOf(store, i) = "running"

\* C2: for every job, the progress reported is in 0..100, it is 100 when the
\* state is succeeded and 0 when the state is failed.
C2_ProgressRange ==
  \A j \in Jobs :
    LET s == get_job_status(j)
    IN /\ s.progress \in 0..100
       /\ s.state = "succeeded" => s.progress = 100
       /\ s.state = "failed" => s.progress = 0

\* C2 witness: one job has succeeded and another has failed after the separation
\* had reported progress from the tool's output.
C2_Witness ==
  \E j \in Jobs, i \in Jobs :
    /\ get_job_status(j).state = "succeeded"
    /\ get_job_status(j).progress = 100
    /\ get_job_status(i).state = "failed"
    /\ get_job_status(i).message[1] = "Demucs failed. Check worker logs."

\* C3: the state of a job only moves not_found -> queued -> running ->
\* succeeded | failed: it never returns to queued, and it becomes succeeded or
\* failed only from running.
C3_Lifecycle ==
  [][\A j \in Jobs :
       LET s == StateOf(store, j)
           t == StateOf(store', j)
       IN \/ t = s
          \/ s = "not_found" /\ t = "queued"
          \/ s = "queued" /\ t = "running"
          \/ s = "running" /\ IsTerminal(t)]_vars

\* C3 witness: a separation has succeeded and a transcription has reached a
\* terminal state too.
C3_Witness ==
  \E j \in Jobs, i \in Jobs :
    /\ IsSeparation(j) /\ StateOf(store, j) = "succeeded"
    /\ IsTranscription(i) /\ IsTerminal(StateOf(store, i))

\* C4: the record (queued, progress 0, project_id) is in the store while the task
\* is on the queue; the queued write only ever lands on a job no worker has
\* touched; and once the handler has returned, the job is never "not found".
C4_RecordBeforeTask ==
  /\ [](\A k \in 1..Len(queue) :
          LET s == store[queue[k].job_id]
          IN /\ DOMAIN s = {"state", "progress", "message", "project_id"}
             /\ s.state = "queued"
             /\ ParseInt(s.progress) = 0
             /\ s.project_id = queue[k].project_id)
  /\ [](\A j \in Jobs : apc[j] = "returned" => get_job_status(j).state # "not_found")
  /\ [][\A j \in Jobs :
          (StateOf(store', j) = "queued" /\ store'[j] # store[j])
            => (wpc[j] = "idle" /\ store[j] = NoHash /\ apc[j] = "none")]_vars

\* C4 witness: the handler has returned and a worker is already writing the
\* progress of the job it created.
C4_Witness ==
  \E j \in Jobs :
    /\ apc[j] = "returned"
    /\ wpc[j] \notin {"idle", "returned", "raised"}
    /\ get_job_status(j).state = "running"

\* C5: no execution of separate_with_demucs or transcribe_monophonic ends, by
\* return or by raising, with the job still in state running.
C5_EndsTerminal ==
  \A j \in Jobs :
    wpc[j] \in {"returned", "raised"} => IsTerminal(get_job_status(j).state)

\* C6: whenever a job is running before and after a step, the progress stored
\* after the step is at least the progress stored before it, whatever lines the
\* subprocess prints.
C6_ProgressMonotone ==
  [][\A j \in Jobs :
       (StateOf(store, j) = "running" /\ StateOf(store', j) = "running")
         => ProgressOf(store', j) >= ProgressOf(store, j)]_vars

\* C7: a separation that finds no original.* ends at once failed, progress 0,
\* "No uploaded audio", with the tool never started and no scratch directory; a
\* transcription that finds its stem absent ends at once failed, progress 0,
\* "Stem not found: <name>", with no MIDI or MusicXML file written by it.
C7_PreconditionFailures ==
  /\ [][\A j \in Jobs :
          (wpc[j] = "s_locate" /\ uploads[task[j].project_id] = {} /\ wpc'[j] # wpc[j])
            => /\ wpc'[j] = "returned"
               /\ get_job_status(j)' = [job_id |-> j, state |-> "failed", progress |-> 0,
                                        message |-> Msg("No uploaded audio")]
               /\ demucs'[j].status = "never"
               /\ scratch'[j] = NoDir]_vars
  /\ [][\A j \in Jobs :
          (wpc[j] = "t_check" /\ stems[task[j].project_id][task[j].stem_name] = Absent
             /\ wpc'[j] # wpc[j])
            => /\ wpc'[j] = "returned"
               /\ get_job_status(j)' =
                    [job_id |-> j, state |-> "failed", progress |-> 0,
                     message |-> MsgS("Stem not found: ", task[j].stem_name)]
               /\ trans_files' = trans_files]_vars
  /\ [](\A j \in Jobs :
          /\ get_job_status(j).message = Msg("No uploaded audio")
               => /\ get_job_status(j).state = "failed"
                  /\ demucs[j].status = "never"
                  /\ scratch[j] = NoDir
          /\ get_job_status(j).message[1] = "Stem not found: "
               => /\ get_job_status(j).state = "failed"
                  /\ \A p \in ProjectIds, f \in TransNames : trans_files[p][f] # j)

\* C7 witness: a transcription whose stem was there at the request and gone when
\* the worker looked has ended with "Stem not found".
C7_Witness ==
  \E j \in Jobs :
    /\ IsTranscription(j)
    /\ wpc[j] = "returned"
    /\ get_job_status(j).state = "failed"
    /\ get_job_status(j).message = MsgS("Stem not found: ", task[j].stem_name)

\* C8: when transcribe_monophonic has ended by raising, the record already says
\* failed, progress 0, with the text of that exception in the message.
C8_ExceptionRecorded ==
  \A j \in Jobs :
    (IsTranscription(j) /\ wpc[j] = "raised")
      => get_job_status(j) =
           [job_id |-> j, state |-> "failed", progress |-> 0,
            message |-> MsgS("Transcription exception: ", exc[j])]

\* C8 witness: the exception came after the MIDI file had been written.
C8_Witness ==
  \E j \in Jobs :
    /\ IsTranscription(j)
    /\ wpc[j] = "raised"
    /\ exc[j] \in ExcTexts
    /\ trans_files[task[j].project_id][<<task[j].stem_name, "mid">>] = j

\* C9: in the notes of one run every note starts before it ends, and each note
\* ends no later than the next one starts (so the starts increase).
C9_NotesOrdered ==
  \A j \in Jobs :
    /\ \A k \in 1..Len(notes[j]) : TimeLess(notes[j][k].start, notes[j][k].end)
    /\ \A k \in 1..(Len(notes[j]) - 1) :
         /\ TimeLeq(notes[j][k].end, notes[j][k + 1].start)
         /\ TimeLess(notes[j][k].start, notes[j][k + 1].start)

\* C10: when a separation has succeeded and a second one on the same project,
\* with the same tool output, has succeeded after it, nobody else having touched
\* the stem set, the stem set is what it was after the first: same names, same
\* contents.
C10_SeparationIdempotent ==
  \A j \in Jobs, i \in Jobs :
    (/\ i # j
     /\ IsSeparation(j) /\ IsSeparation(i)
     /\ task[j].project_id = task[i].project_id
     /\ StateOf(store, j) = "succeeded" /\ StateOf(store, i) = "succeeded"
     /\ demucs[j].out = demucs[i].out
     /\ since[j] = {i}
     /\ since[i] = {})
      => stems[task[j].project_id] = stems_done[j]

\* C10 witness: two such runs, the first having left at least two stems.
C10_Witness ==
  \E j \in Jobs, i \in Jobs :
    /\ i # j
    /\ IsSeparation(j) /\ IsSeparation(i)
    /\ StateOf(store, j) = "succeeded" /\ StateOf(store, i) = "succeeded"
    /\ demucs[j].out = demucs[i].out
    /\ since[j] = {i}
    /\ since[i] = {}
    /\ Cardinality({n \in StemNames : stems_done[j][n] # Absent}) >= 2

\* The sub-range of the separation step: scaled = 5 + ..., "# 5..85".
Lo == 5
Hi == 85

\* A step of the output loop of job j that wrote to the store.
Emitted(j) == wpc[j] = "s_stream" /\ wpc'[j] = "s_stream" /\ store'[j] # store[j]
\* The percentage carried by the message "Separating... <pct>%".
PctOf(st, j) == st[j].message[3]

\* C11: every value the loop writes is Lo + round(pct / 100 * (Hi - Lo)) for the
\* clamped percentage pct of its message (no product falls half way between two
\* integers, so the rounding rule for ties does not matter).
C11_RescaleRound ==
  [][\A j \in Jobs :
       Emitted(j) =>
         ProgressOf(store', j) =
           Lo + (2 * PctOf(store', j) * (Hi - Lo) + 100) \div 200]_vars

\* C11 as amended: every value the loop writes is Lo plus pct / 100 * (Hi - Lo)
\* rounded down: the largest s with s * 100 <= pct * (Hi - Lo), plus Lo.
C11_RescaleFloor ==
  [][\A j \in Jobs :
       Emitted(j) =>
         LET s == ProgressOf(store', j) - Lo
             pct == PctOf(store', j)
         IN /\ pct \in 0..100
            /\ s * 100 <= pct * (Hi - Lo)
            /\ pct * (Hi - Lo) < (s + 1) * 100]_vars

\* C11 witness: 2% has been written as 6, where rounding to nearest gives 7.
C11_Witness ==
  \E j \in Jobs :
    /\ wpc[j] = "s_stream"
    /\ raw[j] = Line(2, FALSE, 0, 0)
    /\ store[j].message = MsgN("Separating... %", 2)
    /\ ProgressOf(store, j) = 6

\* C12: every value the loop writes lies in Lo..Hi, whatever the line (x above
\* total, a leading number above 100); and a line that wrote something had a
\* leading percentage or an "x/total" with total > 0: a line without a match, or
\* with total = 0, writes nothing.
C12_EmittedInRange ==
  [][\A j \in Jobs :
       Emitted(j) =>
         /\ ProgressOf(store', j) \in Lo..Hi
         /\ \/ raw'[j].lead >= 0
            \/ raw'[j].frac /\ raw'[j].total > 0]_vars

\* C12 witness: "3/1" has been read and the value written for it is Hi.
C12_Witness ==
  \E j \in Jobs :
    /\ wpc[j] = "s_stream"
    /\ raw[j] = Line(-1, TRUE, 3, 1)
    /\ ProgressOf(store, j) = Hi
    /\ store[j].message = MsgN("Separating... %", 100)

\* C13: the loop writes only a scaled value that differs from the one it wrote
\* last, so no value is written twice in a row; and when the percentage of the
\* line is not below the percentage written last, the value written is greater
\* than the one before.
C13_Deduplicated ==
  [][\A j \in Jobs :
       Emitted(j) =>
         /\ ProgressOf(store', j) # last_scaled[j]
         /\ last_scaled'[j] = ProgressOf(store', j)
         /\ (last_scaled[j] >= 0 /\ PctOf(store', j) >= PctOf(store, j))
              => ProgressOf(store', j) > ProgressOf(store, j)]_vars

\* C13 witness: after 0% was written as 5, the line "1%" (scaled 5 again) has been
\* read and nothing was written for it.
C13_Witness ==
  \E j \in Jobs :
    /\ wpc[j] = "s_stream"
    /\ raw[j] = Line(1, FALSE, 0, 0)
    /\ last_scaled[j] = 5
    /\ store[j].message = MsgN("Separating... %", 0)

\* C14: a separation that has reached a terminal state after its scratch
\* directory was made has left that directory in place on the "No demucs output
\* found" path and on no other: after succeeded, a non-zero exit code, an
\* exception of the invocation and "No stems copied" the directory is gone.
C14_ScratchCleanup ==
  \A j \in Jobs :
    (/\ IsSeparation(j)
     /\ IsTerminal(get_job_status(j).state)
     /\ get_job_status(j).message # Msg("No uploaded audio"))
      => (scratch[j].exists <=> get_job_status(j).message = Msg("No demucs output found"))

\* The number of the four canonical stem names a directory holds.
CanonicalIn(d) == Cardinality({n \in StemNames : n \in DOMAIN d})

\* C15: the search finds nothing exactly when no directory of the scratch tree
\* holds bass.wav; otherwise it finds a directory that holds bass.wav and holds
\* at least as many of the four canonical names as every other such directory.
C15_BestFolder ==
  \A j \in Jobs :
    wpc[j] = "s_collect" =>
      LET dirs == scratch[j].dirs
          k == copy[j].folder
          cands == {i \in 1..Len(dirs) : "bass.wav" \in DOMAIN dirs[i]}
      IN /\ k = 0 <=> cands = {}
         /\ k # 0 => /\ k \in cands
                     /\ \A i \in cands : CanonicalIn(dirs[i]) <= CanonicalIn(dirs[k])

\* C15 witness: the tree lists a two-stem directory before a four-stem one and the
\* four-stem one is chosen.
C15_Witness ==
  \E j \in Jobs :
    /\ wpc[j] = "s_collect"
    /\ scratch[j].dirs = <<Only({"bass.wav", "drums.wav"}, X), All4(X)>>
    /\ copy[j].folder = 2

\* The maximal runs of one voiced note in a frame sequence, as <<first, last>>
\* positions, and those whose length times the hop reaches min_note_len_s.
MaximalRuns(mf) ==
  {r \in (1..Len(mf)) \X (1..Len(mf)) :
     /\ r[1] <= r[2]
     /\ mf[r[1]] >= 0
     /\ \A c \in r[1]..r[2] : mf[c] = mf[r[1]]
     /\ (r[1] = 1 \/ mf[r[1] - 1] # mf[r[1]])
     /\ (r[2] = Len(mf) \/ mf[r[2] + 1] # mf[r[1]])}

KeptRuns(mf) ==
  {r \in MaximalRuns(mf) :
     IF Len(mf) > 1
     THEN (r[2] - r[1] + 1) * HopLength * 100 >= MinNoteLenCs * SampleRate
     ELSE FallbackHopCs >= MinNoteLenCs}

\* C16: the notes are, in order, the maximal runs of one voiced note that last
\* at least min_note_len_s; a note starts at the time of the first frame of its
\* run and ends one hop after the time of the last, which is the time of the
\* frame that follows the run, where an adjacent run starts.
C16_SegmentsAreRuns ==
  \A j \in Jobs :
    wpc[j] = "t_midi" =>
      LET mf == midi_frame[j]
          kept == KeptRuns(mf)
      IN /\ Len(notes[j]) = Cardinality(kept)
         /\ \A r \in kept :
              LET k == 1 + Cardinality({q \in kept : q[1] < r[1]})
              IN notes[j][k] = [pitch |-> mf[r[1]],
                                start |-> start_time(r[1] - 1),
                                end |-> start_time(r[2])]

\* C17: an interior frame whose two neighbours on either side all carry one
\* voiced note p in the output of the frequency-to-note conversion holds p after
\* smoothing.
C17_SpikeRemoved ==
  \A j \in Jobs :
    wpc[j] = "t_notes" =>
      LET inp == to_midi_frames(f0[j])
          out == midi_frame[j]
      IN \A i \in 3..(Len(inp) - 2) :
           (/\ inp[i - 2] >= 0
            /\ inp[i - 1] = inp[i - 2]
            /\ inp[i + 1] = inp[i - 2]
            /\ inp[i + 2] = inp[i - 2])
             => out[i] = inp[i - 2]

\* The number of voiced values in a window.
VoicedCount(w) == Cardinality({k \in 1..Len(w) : w[k] >= 0})

\* C18: smoothing leaves the first two and the last two frames as they were,
\* every interior frame whose window holds fewer than three voiced values when
\* the frame is processed (the two frames before it already smoothed), and every
\* frame inside a run of three or more equal voiced notes of the input.
C18_SmoothingFrame ==
  \A j \in Jobs :
    wpc[j] = "t_notes" =>
      LET inp == to_midi_frames(f0[j])
          out == midi_frame[j]
          n == Len(inp)
      IN /\ Len(out) = n
         /\ \A i \in 1..n : (i <= 2 \/ i > n - 2) => out[i] = inp[i]
         /\ \A i \in 3..(n - 2) :
              VoicedCount(<<out[i - 2], out[i - 1], inp[i], inp[i + 1], inp[i + 2]>>) < 3
                => out[i] = inp[i]
         /\ \A i \in 1..n :
              (\E a \in 1..(n - 2) :
                 /\ a <= i /\ i <= a + 2
                 /\ inp[a] >= 0 /\ inp[a + 1] = inp[a] /\ inp[a + 2] = inp[a])
                => out[i] = inp[i]

\* C18 witness: smoothing has changed a frame of an estimate that also has a
\* run of three equal voiced notes reaching into the interior and an interior
\* frame with fewer than three voiced values around it.
C18_Witness ==
  \E j \in Jobs :
    /\ wpc[j] = "t_notes"
    /\ LET inp == to_midi_frames(f0[j])
           out == midi_frame[j]
           n == Len(inp)
       IN /\ out # inp
          /\ \E a \in 1..(n - 2) :
               /\ inp[a] >= 0 /\ inp[a + 1] = inp[a] /\ inp[a + 2] = inp[a]
               /\ a + 2 >= 3 /\ a <= n - 2
          /\ \E i \in 3..(n - 2) :
               VoicedCount(<<out[i - 2], out[i - 1], inp[i], inp[i + 1], inp[i + 2]>>) < 3

\* C19: a scratch directory is created, filled and removed only by steps of the
\* separation job it is keyed by, so a job that collects its stems finds the
\* output of its own run in place whatever the other jobs, of the same project
\* or not, do meanwhile.
C19_ScratchIsolation ==
  /\ [](\A j \in Jobs :
          wpc[j] = "s_collect" =>
            /\ scratch[j].exists
            /\ scratch[j].dirs = demucs[j].out)
  /\ [][\A i \in Jobs :
          scratch'[i] # scratch[i] =>
            /\ task[i].func = "separate_with_demucs"
            /\ task[i].job_id = i
            /\ wpc'[i] # wpc[i]]_vars

\* C19 witness: a job collects from its scratch directory while another job of the
\* same project has just made its own afresh.
C19_Witness ==
  \E a, b \in Jobs :
    /\ a # b
    /\ task[a].project_id = task[b].project_id
    /\ wpc[a] = "s_popen"
    /\ scratch[a] = EmptyDir
    /\ wpc[b] = "s_collect"
    /\ copy[b].folder # 0
    /\ scratch[b].dirs = demucs[b].out

\* C20: the step that writes failed into the record of a separation job leaves
\* every stem file as it is and is taken by a job that has copied nothing; and a
\* stem set changes only by a copy that the copying job counts, or by the removal
\* of the files from outside.
C20_FailedWroteNoStem ==
  /\ [][\A j \in Jobs :
          (/\ IsSeparation(j)
           /\ StateOf(store, j) # "failed"
           /\ StateOf(store', j) = "failed")
            => /\ stems' = stems
               /\ copy[j].copied = 0]_vars
  /\ [][\A p \in ProjectIds :
          stems'[p] # stems[p] =>
            \/ stems'[p] = NoStems
            \/ \E j \in Jobs :
                 /\ IsSeparation(j)
                 /\ task[j].project_id = p
                 /\ wpc[j] = "s_collect"
                 /\ copy'[j].copied = copy[j].copied + 1]_vars

\* C20 witness: a job has failed with "No stems copied" and the stem set an
\* earlier job of the project completed is there as that job left it.
C20_Witness ==
  \E a, b \in Jobs :
    /\ a # b
    /\ task[a].project_id = task[b].project_id
    /\ StateOf(store, a) = "succeeded"
    /\ StateOf(store, b) = "failed"
    /\ get_job_status(b).message = Msg("No stems copied")
    /\ stems[task[b].project_id] = stems_done[a]
    /\ stems_done[a] # NoStems

\* C21: every voiced value of the smoothed sequence is the note of some frame of
\* the converted sequence within two frames of it; the smoothed sequence holds no
\* note number the converted sequence does not hold.
C21_NoInventedPitch ==
  \A j \in Jobs :
    wpc[j] = "t_notes" =>
      LET inp == to_midi_frames(f0[j])
          out == midi_frame[j]
          n == Len(inp)
      IN \A i \in 1..n :
           out[i] >= 0 =>
             \E k \in Max(1, i - 2)..Min(n, i + 2) : inp[k] = out[i]
====
